---- MODULE Spec2Model ----
(***************************************************************************)
(* A model of the paragon benchmark driver (src/c/bench.c) and of its      *)
(* binding layer (src/c/paragon.c, src/c/paragon.h).                       *)
(*                                                                         *)
(* C strings are sequences of one-character strings; the terminating NUL   *)
(* is the position Len(s) + 1.  A pointer into a string is a position.     *)
(* The null char pointer is NULL, the null function pointer is NoFn and    *)
(* the null library handle is NoSo.                                        *)
(***************************************************************************)
EXTENDS Integers, Sequences, FiniteSets, TLC

VARIABLES
  lib,        \* the environment: what dlopen and dlsym will find
  api,        \* the ParagonAPI table of main: so, New5, New3, Call
  pc,         \* the control point of the running program
  idx,        \* main: the index of the shape being run (1..10)
  newr,       \* run_one: the raw reply of the construction
  h,          \* run_one: the decoded handle
  adapter,    \* run_one: the raw reply of InitializeOptimizedGPU
  outA,       \* run_one: the raw reply of the baseline ExtractOutput
  outB,       \* run_one: the raw reply of the accelerated ExtractOutput
  calls,      \* the calls made into the library by the case being run
  report,     \* what the case being run printed on stdout (NoReport: nothing)
  processed,  \* the shape ids whose run_one has returned, in order
  shapeLog,   \* the shape indices in whose case a library call was made
  rejected,   \* the library rejected an acceleration call of the case being run
  closed,     \* the number of dlclose calls made
  exit,       \* the exit status of the process (Running: none yet)
  txt,        \* the argument of the decoder under test
  ret,        \* the value the decoder under test returned
  strategy,   \* the branch paragon_new_net_any took in each case so far
  frame       \* the locals of the function that is run on its own

vars == << lib, api, pc, idx, newr, h, adapter, outA, outB, calls, report,
           processed, shapeLog, rejected, closed, exit, txt, ret, strategy,
           frame >>

benchVars == << idx, newr, h, adapter, outA, outB, calls, report,
                processed, shapeLog, rejected, exit, strategy >>

----------------------------------------------------------------------------
(* Characters and C string primitives *)

NULL == << "NULL" >>

Q == "\""

Digit == {"0", "1", "2", "3", "4", "5", "6", "7", "8", "9"}

\* isspace of the C locale (the vertical tab has no TLA+ spelling)
Space == {" ", "\t", "\n", "\f", "\r"}

DigitVal(c) ==
  CASE c = "0" -> 0 [] c = "1" -> 1 [] c = "2" -> 2 [] c = "3" -> 3
    [] c = "4" -> 4 [] c = "5" -> 5 [] c = "6" -> 6 [] c = "7" -> 7
    [] c = "8" -> 8 [] c = "9" -> 9

Min(S) == CHOOSE x \in S : \A y \in S : x <= y

\* the character at position i; the terminating NUL at Len(s) + 1
At(s, i) == IF i >= 1 /\ i <= Len(s) THEN s[i] ELSE "NUL"

\* the first position >= i whose character is not in the set cs
SkipWhile(s, i, cs) == Min({j \in i..(Len(s) + 1) : At(s, j) \notin cs})

RECURSIVE DecVal(_, _, _, _)
DecVal(s, i, j, acc) ==
  IF i >= j THEN acc ELSE DecVal(s, i + 1, j, acc * 10 + DigitVal(s[i]))

\* strtoll(s + p - 1, &e, 10): v the value, e the end position; e = p when
\* no conversion is done.  (Values stay far below LLONG_MAX: a text of the
\* model has fewer than ten digits, so the ERANGE clamp is never reached.)
strtoll(s, p) ==
  LET i == SkipWhile(s, p, Space)
      j == IF At(s, i) \in {"+", "-"} THEN i + 1 ELSE i
      k == SkipWhile(s, j, Digit)
      m == DecVal(s, j, k, 0)
  IN  IF k = j THEN [v |-> 0, e |-> p]
      ELSE [v |-> IF At(s, i) = "-" THEN 0 - m ELSE m, e |-> k]

\* needle occurs in s at position i
OccursAt(s, needle, i) ==
  /\ i >= 1
  /\ i + Len(needle) - 1 <= Len(s)
  /\ SubSeq(s, i, i + Len(needle) - 1) = needle

\* strstr(s + from - 1, needle): the position of the first occurrence, 0 for
\* a null result
strstr(s, from, needle) ==
  LET hits == {i \in from..Len(s) : OccursAt(s, needle, i)}
  IN  IF hits = {} THEN 0 ELSE Min(hits)

\* strchr(s + from - 1, c) for a character c other than NUL
strchr(s, from, c) ==
  LET hits == {i \in from..Len(s) : s[i] = c}
  IN  IF hits = {} THEN 0 ELSE Min(hits)

----------------------------------------------------------------------------
(* paragon_parse_handle, src/c/paragon.c *)

keys == <<
  << Q, "h", "a", "n", "d", "l", "e", Q >>,
  << Q, "H", "a", "n", "d", "l", "e", Q >>,
  << Q, "i", "d", Q >>,
  << Q, "I", "D", Q >>,
  << Q, "n", "e", "t", "w", "o", "r", "k", "_", "h", "a", "n", "d", "l", "e", Q >>,
  << Q, "N", "e", "t", "w", "o", "r", "k", "H", "a", "n", "d", "l", "e", Q >>,
  << Q, "h", Q >>,
  << Q, "H", Q >> >>

ResultKey == << Q, "r", "e", "s", "u", "l", "t", Q >>

\* the characters skipped between a key's colon and its integer
AfterColon == {":", " ", "\t", Q}

\* the body of the loop over keys[i], from keys[i] on, searching from hay:
\* [found |-> TRUE, n |-> the integer] at the first key that yields one
RECURSIVE ScanKeys(_, _, _)
ScanKeys(s, hay, i) ==
  IF i > Len(keys) THEN [found |-> FALSE, n |-> 0]
  ELSE
    LET p == strstr(s, hay, keys[i])
        c == IF p = 0 THEN 0 ELSE strchr(s, p, ":")
        d == IF c = 0 THEN 0 ELSE SkipWhile(s, c, AfterColon)
        r == IF c = 0 THEN [v |-> 0, e |-> 0] ELSE strtoll(s, d)
    IN  IF c # 0 /\ r.e # d THEN [found |-> TRUE, n |-> r.v]
        ELSE ScanKeys(s, hay, i + 1)

\* the test "endp && *endp == '\0'" after strtoll(txt, &endp, 10)
WholeTextConsumed(s) == strtoll(s, 1).e = Len(s) + 1

\* a decoder that takes the key that comes first in the text
MutEarliestKeyInText(s) ==
  IF s = NULL THEN 0 - 1
  ELSE IF WholeTextConsumed(s) THEN strtoll(s, 1).v
  ELSE
    LET K == {i \in 1..Len(s) :
                /\ \E n \in DOMAIN keys : OccursAt(s, keys[n], i)
                /\ strchr(s, i, ":") # 0
                /\ strtoll(s, SkipWhile(s, strchr(s, i, ":"), AfterColon)).e
                     # SkipWhile(s, strchr(s, i, ":"), AfterColon)}
    IN  IF K = {} THEN 0 - 1
        ELSE strtoll(s, SkipWhile(s, strchr(s, Min(K), ":"), AfterColon)).v

paragon_parse_handle(s) ==
  IF s = NULL THEN 0 - 1
  ELSE IF WholeTextConsumed(s) THEN strtoll(s, 1).v
  ELSE
    LET pass0 == ScanKeys(s, 1, 1)
        r     == strstr(s, 1, ResultKey)
        pass1 == IF r = 0 THEN [found |-> FALSE, n |-> 0] ELSE ScanKeys(s, r, 1)
    IN  IF pass0.found THEN pass0.n
        ELSE IF pass1.found THEN pass1.n
        ELSE 0 - 1

----------------------------------------------------------------------------
(* The dynamic capability resolver, src/c/paragon.c *)

NoFn == "NoFn"
NoSo == "NoSo"

NEW5 == << "Paragon_NewNetworkFloat32", "Teleport_NewNetworkFloat32",
           "NewNetworkFloat32" >>
NEW3 == << "Paragon_NewNetworkFloat32_JSON", "Teleport_NewNetworkFloat32_JSON",
           "NewNetworkFloat32_JSON" >>
CALLN == << "Paragon_Call", "Teleport_Call", "Call" >>

Range(f) == {f[i] : i \in DOMAIN f}

Aliases == Range(NEW5) \cup Range(NEW3) \cup Range(CALLN)

\* A library of the environment: whether dlopen can load it, and the
\* symbols dlsym finds in it.  A function pointer is named by the symbol
\* it was resolved from.
NoLib == [ok |-> FALSE, exports |-> {}]
Lib(E) == [ok |-> TRUE, exports |-> E]

\* dlopen: the handle of the library, null when it cannot be loaded
dlopen(l) == IF l.ok THEN "so" ELSE NoSo

must_dlsym_try(l, so, name) ==
  IF so = NoSo THEN NoFn
  ELSE IF name \in l.exports THEN name ELSE NoFn

\* the loop "for(i = 0; names[i]; ++i)" from names[i] on
RECURSIVE ResolveFrom(_, _, _, _)
ResolveFrom(l, so, names, i) ==
  IF i > Len(names) THEN NoFn
  ELSE LET p == must_dlsym_try(l, so, names[i])
       IN  IF p # NoFn THEN p ELSE ResolveFrom(l, so, names, i + 1)

\* a resolver that keeps probing after a hit: the last alias found wins
RECURSIVE MutResolveLast(_, _, _)
MutResolveLast(l, so, names) ==
  IF names = << >> THEN NoFn
  ELSE LET p == must_dlsym_try(l, so, names[Len(names)])
       IN  IF p # NoFn THEN p
           ELSE MutResolveLast(l, so, SubSeq(names, 1, Len(names) - 1))

resolve_any(l, so, names) == ResolveFrom(l, so, names, 1)

\* memset(api, 0, sizeof(*api))
ZeroAPI == [so |-> NoSo, New5 |-> NoFn, New3 |-> NoFn, Call |-> NoFn]

\* a load that returns on dlopen's failure before the table is cleared
MutLoadKeepsTable(a, l) ==
  LET so == dlopen(l)
  IN  IF so = NoSo THEN [a EXCEPT !.so = NoSo]
      ELSE [so   |-> so,
            New5 |-> resolve_any(l, so, NEW5),
            New3 |-> resolve_any(l, so, NEW3),
            Call |-> resolve_any(l, so, CALLN)]

\* paragon_load(&a, so_path), the value of *api at its return; it returns 1
\* on both paths (LoadStatus)
paragon_load(a, l) ==
  LET z  == ZeroAPI
      so == dlopen(l)
  IN  IF so = NoSo THEN [z EXCEPT !.so = so]
      ELSE [so   |-> so,
            New5 |-> resolve_any(l, so, NEW5),
            New3 |-> resolve_any(l, so, NEW3),
            Call |-> resolve_any(l, so, CALLN)]

LoadStatus(a, l) == 1

\* an unload that clears the bindings and leaves the handle of the closed
\* library in the table
MutUnloadKeepsHandle(a) ==
  [so |-> a.so, New5 |-> NoFn, New3 |-> NoFn, Call |-> NoFn]

\* paragon_unload(&a): the new table, and whether dlclose was called
paragon_unload(a) ==
  [so |-> NoSo, New5 |-> NoFn, New3 |-> NoFn, Call |-> NoFn]

UnloadCloses(a) == a.so # NoSo

----------------------------------------------------------------------------
(* The inputs of the decoders and of the resolver *)

MaxFrags == 4

KeyHandle == keys[1]
KeyId == keys[3]

Frags == { KeyHandle, KeyId, ResultKey,
           << ":" >>, << " " >>, << "7" >>, << "4" >>, << "-" >>, << "x" >>,
           << "{" >> }

RECURSIVE TextsUpTo(_)
TextsUpTo(n) ==
  IF n = 0 THEN { << >> }
  ELSE LET T == TextsUpTo(n - 1)
       IN  T \cup {t \o f : t \in T, f \in Frags}

\* the replies named by the specification's examples
Txt42 == << "4", "2" >>
TxtHandle7 == << "{" >> \o KeyHandle \o << ":", " ", "7", "}" >>
TxtResultId9 ==
  << "{" >> \o ResultKey \o << ":", "{" >> \o KeyId \o << ":", " ", "9", "}", "}" >>
TxtNotJson == << "n", "o", "t", " ", "j", "s", "o", "n" >>

\* replies that hold several keys
TxtIdThenHandle ==
  << "{" >> \o KeyId \o << ":", "4", "," >> \o KeyHandle \o << ":", "7", "}" >>
TxtHandleThenId ==
  << "{" >> \o KeyHandle \o << ":", "7", "," >> \o KeyId \o << ":", "4", "}" >>

HandleTexts ==
  TextsUpTo(MaxFrags)
    \cup {NULL, Txt42, TxtHandle7, TxtResultId9, TxtNotJson, TxtIdThenHandle,
          TxtHandleThenId}

\* what main's local "ParagonAPI api" may hold before paragon_load: it is
\* not initialised
StackAPIs ==
  { ZeroAPI,
    [so |-> "junk", New5 |-> "junk", New3 |-> "junk", Call |-> "junk"],
    [so |-> NoSo, New5 |-> "junk", New3 |-> NoFn, Call |-> "junk"] }

AllLibs == {NoLib} \cup {Lib(E) : E \in SUBSET Aliases}

NoRet == << "none" >>
NoFrame == [fn |-> "none"]
NoReport == [printed |-> FALSE]
Running == 0 - 1

\* the variables of main and run_one before main starts
BenchIdle ==
  /\ idx = 0
  /\ newr = NULL
  /\ h = 0
  /\ adapter = NULL
  /\ outA = NULL
  /\ outB = NULL
  /\ calls = << >>
  /\ report = NoReport
  /\ processed = << >>
  /\ shapeLog = << >>
  /\ rejected = FALSE
  /\ exit = Running
  /\ strategy = << >>

----------------------------------------------------------------------------
(* The handle decoder on its own: paragon_parse_handle applied to a text *)

InitParse ==
  /\ txt \in HandleTexts
  /\ ret = NoRet
  /\ pc = "parse_handle"
  /\ lib = NoLib
  /\ api = ZeroAPI
  /\ closed = 0
  /\ BenchIdle
  /\ frame = NoFrame

ParseHandle ==
  /\ pc = "parse_handle"
  /\ ret' = paragon_parse_handle(txt)
  /\ pc' = "parsed_handle"
  /\ UNCHANGED frame
  /\ UNCHANGED << lib, api, closed, txt >>
  /\ UNCHANGED benchVars

NextParse == ParseHandle

SpecParse == InitParse /\ [][NextParse]_vars

----------------------------------------------------------------------------
(* The resolver on its own: paragon_load, then paragon_unload, on a table *)

InitLoad ==
  /\ lib \in AllLibs
  /\ api \in StackAPIs
  /\ pc = "load"
  /\ closed = 0
  /\ txt = NULL
  /\ ret = NoRet
  /\ BenchIdle
  /\ frame = NoFrame

LoadOnly ==
  /\ pc = "load"
  /\ api' = paragon_load(api, lib)
  /\ ret' = LoadStatus(api, lib)
  /\ pc' = "loaded"
  /\ UNCHANGED frame
  /\ UNCHANGED << lib, closed, txt >>
  /\ UNCHANGED benchVars

UnloadOnly ==
  /\ pc \in {"loaded", "unloaded"}
  /\ api' = paragon_unload(api)
  /\ closed' = IF UnloadCloses(api) THEN closed + 1 ELSE closed
  /\ pc' = "unloaded"
  /\ UNCHANGED frame
  /\ UNCHANGED << lib, txt, ret >>
  /\ UNCHANGED benchVars

----------------------------------------------------------------------------
(* Numbers read by strtod: exact rationals n/d, d > 0, in lowest terms.   *)
(* (The program holds doubles; the model keeps the decimal value exactly.) *)

Abs(x) == IF x < 0 THEN 0 - x ELSE x

RECURSIVE Gcd(_, _)
Gcd(a, b) == IF b = 0 THEN a ELSE Gcd(b, a % b)

Rat(n, d) ==
  LET g == Gcd(Abs(n), d)
  IN  IF n = 0 THEN [n |-> 0, d |-> 1] ELSE [n |-> n \div g, d |-> d \div g]

RatZero == Rat(0, 1)
RatAdd(x, y) == Rat(x.n * y.d + y.n * x.d, x.d * y.d)
RatAbsDiff(x, y) == Rat(Abs(x.n * y.d - y.n * x.d), x.d * y.d)
RatLess(x, y) == x.n * y.d < y.n * x.d
RatDivInt(x, k) == Rat(x.n, x.d * k)

RECURSIVE Pow10n(_)
Pow10n(k) == IF k = 0 THEN 1 ELSE 10 * Pow10n(k - 1)

\* strtod(s + p - 1, &e) on decimal literals: optional white space, an
\* optional sign, digits with an optional fraction (at least one digit in
\* all), an optional exponent.  e = p when no conversion is done.  (The
\* texts of the model hold none of the words inf, nan or 0x.)
\*   i: the sign or first digit, j: the first digit, k: the end of the
\*   integer digits, f: the end of the fraction, x: the first exponent
\*   digit (f when there is no 'e'), y: the end of the exponent digits
StrtodValue(s, i, j, k, f, ex) ==
  LET m  == DecVal(s, k + 1, f, DecVal(s, j, k, 0))
      sc == ex - (IF f > k THEN f - k - 1 ELSE 0)
      sm == IF At(s, i) = "-" THEN 0 - m ELSE m
  IN  IF sc >= 0 THEN Rat(sm * Pow10n(sc), 1) ELSE Rat(sm, Pow10n(0 - sc))

StrtodExp(s, p, i, j, k, f, x, y) ==
  IF (k - j) + (IF f > k THEN f - k - 1 ELSE 0) = 0
  THEN [v |-> RatZero, e |-> p]
  ELSE IF x > f /\ y > x
  THEN [v |-> StrtodValue(s, i, j, k, f,
                 IF At(s, f + 1) = "-" THEN 0 - DecVal(s, x, y, 0)
                 ELSE DecVal(s, x, y, 0)),
        e |-> y]
  ELSE [v |-> StrtodValue(s, i, j, k, f, 0), e |-> f]

StrtodFrac(s, p, i, j, k, f, x) ==
  StrtodExp(s, p, i, j, k, f, x, IF x > f THEN SkipWhile(s, x, Digit) ELSE f)

StrtodInt(s, p, i, j, k, f) ==
  StrtodFrac(s, p, i, j, k, f,
             IF At(s, f) \in {"e", "E"}
             THEN (IF At(s, f + 1) \in {"+", "-"} THEN f + 2 ELSE f + 1)
             ELSE f)

StrtodSign(s, p, i, j, k) ==
  StrtodInt(s, p, i, j, k,
            IF At(s, k) = "." THEN SkipWhile(s, k + 1, Digit) ELSE k)

StrtodSpace(s, p, i, j) == StrtodSign(s, p, i, j, SkipWhile(s, j, Digit))

strtod(s, p) ==
  LET i == SkipWhile(s, p, Space)
  IN  StrtodSpace(s, p, i, IF At(s, i) \in {"+", "-"} THEN i + 1 ELSE i)

\* strrchr(s, c): the position of the last occurrence, 0 for a null result
strrchr(s, c) ==
  LET hits == {i \in 1..Len(s) : s[i] = c}
  IN  IF hits = {} THEN 0 ELSE CHOOSE i \in hits : \A j \in hits : j <= i

\* the scan loop of parse_vector_tolerant from position pos on, out[0..n-1]
\* being acc
RECURSIVE ScanVector(_, _, _, _, _)
ScanVector(s, pos, q, maxn, acc) ==
  IF ~(pos < q /\ Len(acc) < maxn) THEN acc
  ELSE LET r == strtod(s, pos)
       IN  IF r.e = pos THEN ScanVector(s, pos + 1, q, maxn, acc)
           ELSE ScanVector(s, r.e, q, maxn, Append(acc, r.v))

\* parse_vector_tolerant(txt, out, maxn): the elements out[0..n-1] written
parse_vector_tolerant(s, maxn) ==
  IF s = NULL THEN << >>
  ELSE LET p == strchr(s, 1, "[")
           q == strrchr(s, "]")
       IN  IF p = 0 \/ q = 0 \/ q <= p THEN << >>
           ELSE ScanVector(s, p + 1, q, maxn, << >>)

----------------------------------------------------------------------------
(* The request builders of bench.c *)

InputLen == 784
VecCap == 1024

json_layers(dims) == [i \in 1..Len(dims) |-> [Width |-> dims[i], Height |-> 1]]

\* a loop "for(i = 1; i < ndims; i++)": one "relu" too many
MutActivsReluPerLayer(ndims) ==
  << "linear" >> \o [i \in 1..(ndims - 1) |-> "relu"] \o << "softmax" >>

json_activs(ndims) ==
  << "linear" >> \o [i \in 1..(ndims - 2) |-> "relu"] \o << "softmax" >>

json_trainable(ndims) == [i \in 1..ndims |-> TRUE]

\* a step that loses the carry out of the low half
MutLcgNoCarry(s) ==
  LET lo  == s.lo * 26125 + 62303
      hi  == s.hi * 26125 + s.lo * 25 + 15470
  IN  [hi |-> hi % 65536, lo |-> lo % 65536]

\* unsigned 32-bit arithmetic on 16-bit halves [hi, lo]: s * 1664525 +
\* 1013904223 modulo 2^32 (1664525 = 25 * 2^16 + 26125 and
\* 1013904223 = 15470 * 2^16 + 62303)
LcgNext(s) ==
  LET lo  == s.lo * 26125 + 62303
      hi  == s.hi * 26125 + s.lo * 25 + 15470 + (lo \div 65536)
  IN  [hi |-> hi % 65536, lo |-> lo % 65536]

\* n <= 28 turns of the loop "for(i = 0; i < 784; i++)" from state s on:
\* the states after each turn
RECURSIVE LcgBlock(_, _, _)
LcgBlock(s, n, acc) ==
  IF n = 0 THEN acc
  ELSE LET t == LcgNext(s) IN LcgBlock(t, n - 1, Append(acc, t))

\* n turns of the loop, taken 28 at a time
RECURSIVE LcgSeq(_, _, _)
LcgSeq(s, n, acc) ==
  IF n = 0 THEN acc
  ELSE LET m   == IF n < 28 THEN n ELSE 28
           blk == LcgBlock(s, m, << >>)
       IN  LcgSeq(blk[m], n - m, acc \o blk)

\* json_fixed784(): "[[v1,...,v784]]", one row whose i-th element is the
\* i-th state of the generator divided by 4294967295.0 and printed with
\* "%.6f"; the model keeps each element as the generator's state
json_fixed784 == << LcgSeq([hi |-> 0, lo |-> 123], InputLen, << >>) >>

\* the argument "[" xin "]" of Forward, lines 119 and 129, as the record of
\* a call keeps it: the number of rows of xin, the length of its row, and
\* the first and the last element of the row
ForwardArgs ==
  LET row == json_fixed784[1]
  IN  [rows  |-> Len(json_fixed784),
       n     |-> Len(row),
       first |-> row[1],
       last  |-> row[Len(row)]]

----------------------------------------------------------------------------
(* Calls into the library *)

\* one call made through a function pointer: fn the table entry used, ptr
\* the pointer called (NoFn: a null pointer), and the arguments passed; a
\* constructor takes no handle and no method name (h = 0, method = "")
CallRec(fn, ptr, hh, method, args) ==
  [fn |-> fn, ptr |-> ptr, h |-> hh, method |-> method, args |-> args]

\* a constructor that tries the 3-argument entry point first
MutNew3First(a, layers, activs, trainable, prefer_gpu, expose) ==
  IF a.New3 # NoFn
  THEN << CallRec("New3", a.New3, 0, "", << layers, activs, trainable >>) >>
  ELSE IF a.New5 # NoFn
  THEN << CallRec("New5", a.New5, 0, "",
                  << layers, activs, trainable, prefer_gpu, expose >>) >>
  ELSE IF a.Call # NoFn
  THEN << CallRec("Call", a.Call, 0, "NewNetworkFloat32",
                  << layers, activs, trainable, prefer_gpu, expose >>) >>
  ELSE << >>

\* a facade that remembers it was called before and then prefers the
\* 3-argument entry point
MutRemembersEarlierCall(a, layers, activs, trainable, prefer_gpu, expose) ==
  IF a.New5 # NoFn /\ ~(strategy # << >> /\ a.New3 # NoFn)
  THEN << CallRec("New5", a.New5, 0, "",
                  << layers, activs, trainable, prefer_gpu, expose >>) >>
  ELSE IF a.New3 # NoFn
  THEN << CallRec("New3", a.New3, 0, "", << layers, activs, trainable >>) >>
  ELSE IF a.Call # NoFn
  THEN << CallRec("Call", a.Call, 0, "NewNetworkFloat32",
                  << layers, activs, trainable, prefer_gpu, expose >>) >>
  ELSE << >>

\* paragon_new_net_any: the calls it makes into the library; it returns the
\* reply of that call, and NULL when it makes none
paragon_new_net_any(a, layers, activs, trainable, prefer_gpu, expose) ==
  IF a.New5 # NoFn
  THEN << CallRec("New5", a.New5, 0, "",
                  << layers, activs, trainable, prefer_gpu, expose >>) >>
  ELSE IF a.New3 # NoFn
  THEN << CallRec("New3", a.New3, 0, "", << layers, activs, trainable >>) >>
  ELSE IF a.Call # NoFn
  THEN << CallRec("Call", a.Call, 0, "NewNetworkFloat32",
                  << layers, activs, trainable, prefer_gpu, expose >>) >>
  ELSE << >>

\* the branch of paragon_new_net_any that made the calls: the table entry
\* it called through, "none" for the return of NULL at line 136
Branch(made) == IF made = << >> THEN "none" ELSE made[1].fn

\* paragon_call0: the calls it makes; it returns the reply, NULL when none
paragon_call0(a, hh, method) ==
  IF a.Call = NoFn THEN << >>
  ELSE << CallRec("Call", a.Call, hh, method, "[]") >>

\* a test that takes only a negative handle for a failure
MutHandleNegative(hh) == hh < 0

\* a test "!h" that takes only the handle 0 for a failure
MutHandleOnlyZero(hh) == hh = 0

\* the test "h <= 0" of run_one

HandleFailed(hh) == hh <= 0

----------------------------------------------------------------------------
(* The replies of the library, and the suite *)

TxtBraces == << "{", "}" >>
TxtError ==
  << "{", Q, "e", "r", "r", "o", "r", Q, ":", Q, "x", Q, "}" >>
TxtZero == << "0" >>
TxtMinus3 == << "-", "3" >>
TxtVec123 == << "[", "1", ",", "2", ",", "3", "]" >>
TxtVec125 == << "[", "1", ",", "2", ",", "5", "]" >>
TxtVec14 == << "[", "1", ",", "4", "]" >>
TxtVecBad ==
  << "[", "1", ".", "0", ",", "2", ".", "5", ",", "b", "a", "d", ",", "3", "]" >>

\* what a constructor may reply
NewReplies == {NULL, Txt42, TxtHandle7, TxtNotJson, TxtZero, TxtMinus3, << >>}

\* what the library may reply to an acceleration call or to Forward; NULL
\* and an error text are its ways of rejecting the call
AccelReplies == {NULL, TxtBraces, TxtError}
Rejections == {NULL, TxtError}

\* what the library may reply to ExtractOutput
OutReplies == {NULL, TxtVec123, TxtVec125, TxtVec14, TxtVecBad}

Shapes == <<
  [id |-> "S1",  dims |-> << 784, 64, 10 >>],
  [id |-> "S2",  dims |-> << 784, 128, 10 >>],
  [id |-> "S3",  dims |-> << 784, 256, 10 >>],
  [id |-> "M1",  dims |-> << 784, 256, 256, 10 >>],
  [id |-> "M2",  dims |-> << 784, 384, 384, 10 >>],
  [id |-> "M3",  dims |-> << 784, 512, 512, 10 >>],
  [id |-> "L1",  dims |-> << 784, 768, 768, 768, 10 >>],
  [id |-> "L2",  dims |-> << 784, 1024, 1024, 1024, 10 >>],
  [id |-> "XL1", dims |-> << 784, 1536, 1536, 1536, 1536, 10 >>],
  [id |-> "XL2", dims |-> << 784, 2048, 2048, 2048, 2048, 10 >> ] >>

\* the libraries the benchmark is run against: none, and one for each set
\* of bound categories
BenchLibs ==
  {NoLib} \cup {Lib(E) : E \in SUBSET {NEW5[1], NEW3[2], CALLN[3]}}

\* the enabling calls with the two configuration calls made out of order
MutEnableCallsSwapped == <<
  [method |-> "SetWebGPUNative", args |-> "[]"],
  [method |-> "WebGPUNativeOn",  args |-> "[]"],
  [method |-> "SetOptions",      args |-> "[{\"WebGPUNative\":true}]"],
  [method |-> "Configure",       args |-> "[{\"WebGPUNative\":true}]"],
  [method |-> "SetField",        args |-> "[\"WebGPUNative\",true]"],
  [method |-> "Call",            args |-> "[\"SetWebGPUNative\",[true]]"] >>

\* the enabling calls of try_gpu_enable, in order
EnableCalls == <<
  [method |-> "SetWebGPUNative", args |-> "[]"],
  [method |-> "WebGPUNativeOn",  args |-> "[]"],
  [method |-> "Configure",       args |-> "[{\"WebGPUNative\":true}]"],
  [method |-> "SetOptions",      args |-> "[{\"WebGPUNative\":true}]"],
  [method |-> "SetField",        args |-> "[\"WebGPUNative\",true]"],
  [method |-> "Call",            args |-> "[\"SetWebGPUNative\",[true]]"] >>

EnablePc == << "enable1", "enable2", "enable3", "enable4", "enable5", "enable6" >>

\* an enabling sequence that stops at the first rejected call
MutEnableStopsOnReject(k, r) ==
  IF k = Len(EnableCalls) \/ r \in Rejections THEN "forwardA"
  ELSE EnablePc[k + 1]

\* where try_gpu_enable goes after its k-th call replied r: to the next
\* call, whatever r is
AfterEnable(k, r) ==
  IF k = Len(EnableCalls) THEN "forwardA" ELSE EnablePc[k + 1]

\* the shape indices in whose case a call was made, after one more call
Logged(made) ==
  IF made = << >> \/ (shapeLog # << >> /\ shapeLog[Len(shapeLog)] = idx)
  THEN shapeLog ELSE Append(shapeLog, idx)

----------------------------------------------------------------------------
(* The resolver on its own, continued *)

\* the table is used, while loaded or after paragon_unload, by one call of
\* paragon_call0 ...
Call0Only ==
  /\ pc \in {"loaded", "unloaded"}
  /\ LET made == paragon_call0(api, 42, "ExtractOutput")
     IN  /\ calls' = made
         /\ newr' = IF made = << >> THEN NULL ELSE TxtVec123
  /\ pc' = IF pc = "loaded" THEN "used" ELSE "used_unloaded"
  /\ UNCHANGED << frame, strategy >>
  /\ UNCHANGED << lib, api, closed, txt, ret, idx, h, adapter, outA, outB,
                  report, processed, shapeLog, rejected, exit >>

\* ... or by one call of paragon_new_net_any
NewNetOnly ==
  /\ pc \in {"loaded", "unloaded"}
  /\ LET made == paragon_new_net_any(api, json_layers(<< 784, 64, 10 >>),
                                     json_activs(3), json_trainable(3),
                                     FALSE, FALSE)
     IN  /\ calls' = made
         /\ newr' = IF made = << >> THEN NULL ELSE Txt42
  /\ pc' = IF pc = "loaded" THEN "used" ELSE "used_unloaded"
  /\ UNCHANGED << frame, strategy >>
  /\ UNCHANGED << lib, api, closed, txt, ret, idx, h, adapter, outA, outB,
                  report, processed, shapeLog, rejected, exit >>

NextLoad == LoadOnly \/ UnloadOnly \/ Call0Only \/ NewNetOnly

SpecLoad == InitLoad /\ [][NextLoad]_vars

----------------------------------------------------------------------------
(* The comparison and the report of run_one *)

RECURSIVE SumAbsDiff(_, _, _)
SumAbsDiff(a, b, n) ==
  IF n = 0 THEN RatZero
  ELSE RatAdd(SumAbsDiff(a, b, n - 1), RatAbsDiff(a[n], b[n]))

RECURSIVE MaxAbsDiff(_, _, _)
MaxAbsDiff(a, b, n) ==
  IF n = 0 THEN RatZero
  ELSE LET m == MaxAbsDiff(a, b, n - 1)
           d == RatAbsDiff(a[n], b[n])
       IN  IF RatLess(m, d) THEN d ELSE m

\* a comparison over the longer of the two vectors, the cells that were
\* not decoded being the zeros the buffers are initialised to
MutCompareOverLonger(ra, rb) ==
  LET a  == parse_vector_tolerant(ra, VecCap)
      b  == parse_vector_tolerant(rb, VecCap)
      n  == IF Len(a) < Len(b) THEN Len(b) ELSE Len(a)
      pa == [i \in 1..n |-> IF i <= Len(a) THEN a[i] ELSE RatZero]
      pb == [i \in 1..n |-> IF i <= Len(b) THEN b[i] ELSE RatZero]
      sm == SumAbsDiff(pa, pb, n)
  IN  [n   |-> n,
       mae |-> IF n > 0 THEN RatDivInt(sm, n) ELSE sm,
       mx  |-> MaxAbsDiff(pa, pb, n)]

\* lines 135-141: n, mae and mx from the two raw replies
Compare(ra, rb) ==
  LET a  == parse_vector_tolerant(ra, VecCap)
      b  == parse_vector_tolerant(rb, VecCap)
      n  == IF Len(a) < Len(b) THEN Len(a) ELSE Len(b)
      sm == SumAbsDiff(a, b, n)
  IN  [n   |-> n,
       mae |-> IF n > 0 THEN RatDivInt(sm, n) ELSE sm,
       mx  |-> MaxAbsDiff(a, b, n)]

RECURSIVE WeightCount(_, _)
WeightCount(dims, i) ==
  IF i >= Len(dims) THEN 0
  ELSE dims[i] * dims[i + 1] + dims[i + 1] + WeightCount(dims, i + 1)

\* what "%s" prints for a reply: the empty text for a null one
Printed(r) == IF r = NULL THEN << >> ELSE r

\* lines 143-164: the report of one case (the elapsed times are wall-clock
\* readings and are left out)
Report(shape, ad, ra, rb) ==
  LET c == Compare(ra, rb)
  IN  [printed |-> TRUE,
       shape   |-> shape.id,
       params  |-> WeightCount(shape.dims, 1),
       adapter |-> IF ad = NULL \/ ad = << >> THEN TxtBraces ELSE ad,
       mae     |-> c.mae,
       mx      |-> c.mx,
       outA    |-> Printed(ra),
       outB    |-> Printed(rb)]

----------------------------------------------------------------------------
(* main and run_one, src/c/bench.c *)

Init ==
  /\ lib \in BenchLibs
  /\ api \in StackAPIs
  /\ pc = "main"
  /\ closed = 0
  /\ txt = NULL
  /\ ret = NoRet
  /\ BenchIdle
  /\ frame = NoFrame

\* main, line 174
MainLoad ==
  /\ pc = "main"
  /\ api' = paragon_load(api, lib)
  /\ idx' = 1
  /\ pc' = "run_one"
  /\ UNCHANGED << frame, strategy >>
  /\ UNCHANGED << lib, closed, txt, ret, newr, h, adapter, outA, outB, calls,
                  report, processed, shapeLog, rejected, exit >>

\* run_one, lines 93-107: build the request, construct, decode the handle
Construct ==
  /\ pc = "run_one"
  /\ LET dims == Shapes[idx].dims
         made == paragon_new_net_any(api, json_layers(dims),
                                     json_activs(Len(dims)),
                                     json_trainable(Len(dims)), FALSE, FALSE)
     IN  /\ calls' = made
         /\ shapeLog' = Logged(made)
         /\ strategy' = Append(strategy, Branch(made))
         /\ \E r \in (IF made = << >> THEN {NULL} ELSE NewReplies) :
              /\ newr' = r
              /\ h' = paragon_parse_handle(r)
              /\ pc' = IF HandleFailed(paragon_parse_handle(r))
                       THEN "out" ELSE "gpu_init"
  /\ UNCHANGED frame
  /\ UNCHANGED << lib, api, closed, txt, ret, idx, adapter, outA, outB,
                  report, processed, rejected, exit >>

\* a call that unbinds generic dispatch when the library replies nothing
MutGpuInitUnbinds ==
  /\ pc = "gpu_init"
  /\ LET made == paragon_call0(api, h, "InitializeOptimizedGPU")
     IN  /\ calls' = calls \o made
         /\ shapeLog' = Logged(made)
         /\ \E r \in (IF made = << >> THEN {NULL} ELSE AccelReplies) :
              /\ adapter' = r
              /\ rejected' = (rejected \/ (made # << >> /\ r \in Rejections))
              /\ api' = IF r = NULL THEN [api EXCEPT !.Call = NoFn] ELSE api
  /\ pc' = "try_gpu_enable"
  /\ UNCHANGED << frame, strategy >>
  /\ UNCHANGED << lib, closed, txt, ret, idx, newr, h, outA, outB,
                  report, processed, exit >>

\* run_one, line 111
GpuInit ==
  /\ pc = "gpu_init"
  /\ LET made == paragon_call0(api, h, "InitializeOptimizedGPU")
     IN  /\ calls' = calls \o made
         /\ shapeLog' = Logged(made)
         /\ \E r \in (IF made = << >> THEN {NULL} ELSE AccelReplies) :
              /\ adapter' = r
              /\ rejected' = (rejected \/ (made # << >> /\ r \in Rejections))
  /\ pc' = "try_gpu_enable"
  /\ UNCHANGED << frame, strategy >>
  /\ UNCHANGED << lib, api, closed, txt, ret, idx, newr, h, outA, outB,
                  report, processed, exit >>

\* try_gpu_enable, line 81: nothing is attempted without generic dispatch
EnableGuard ==
  /\ pc = "try_gpu_enable"
  /\ pc' = IF api.Call = NoFn THEN "forwardA" ELSE EnablePc[1]
  /\ UNCHANGED << frame, strategy >>
  /\ UNCHANGED << lib, api, closed, txt, ret, idx, newr, h, adapter, outA,
                  outB, calls, report, processed, shapeLog, rejected, exit >>

\* try_gpu_enable, lines 83-89: the k-th enabling call; its reply is dropped
Enable ==
  \E k \in DOMAIN EnableCalls :
    /\ pc = EnablePc[k]
    /\ LET made == IF k <= 2
                   THEN paragon_call0(api, h, EnableCalls[k].method)
                   ELSE << CallRec("Call", api.Call, h, EnableCalls[k].method,
                                   EnableCalls[k].args) >>
       IN  /\ calls' = calls \o made
           /\ shapeLog' = Logged(made)
           /\ \E r \in AccelReplies :
                /\ rejected' = (rejected \/ r \in Rejections)
                /\ pc' = AfterEnable(k, r)
    /\ UNCHANGED << frame, strategy >>
    /\ UNCHANGED << lib, api, closed, txt, ret, idx, newr, h, adapter, outA,
                    outB, report, processed, exit >>

\* lines 119-120 and 129-130: api->Call(h, "Forward", "[" xin "]"), made
\* without a test of api->Call; its reply is dropped
Forward(from, to) ==
  /\ pc = from
  /\ api.Call # NoFn
  /\ LET made == << CallRec("Call", api.Call, h, "Forward", ForwardArgs) >>
     IN  /\ calls' = calls \o made
         /\ shapeLog' = Logged(made)
  /\ pc' = to
  /\ UNCHANGED << frame, strategy >>
  /\ UNCHANGED << lib, api, closed, txt, ret, idx, newr, h, adapter, outA,
                  outB, report, processed, rejected, exit >>

\* the same call through a null api->Call: undefined behaviour.  The
\* process is killed by the fault of the jump to address 0, or, on a build
\* where that call does not fault, it goes on as if the call had returned.
ForwardNull(from, to) ==
  /\ pc = from
  /\ api.Call = NoFn
  /\ LET made == << CallRec("Call", NoFn, h, "Forward", ForwardArgs) >>
     IN  /\ calls' = calls \o made
         /\ shapeLog' = Logged(made)
  /\ \/ pc' = "crashed" /\ exit' = 139
     \/ pc' = to /\ exit' = exit
  /\ UNCHANGED << frame, strategy >>
  /\ UNCHANGED << lib, api, closed, txt, ret, idx, newr, h, adapter, outA,
                  outB, report, processed, rejected >>

ForwardA == Forward("forwardA", "extractA")
ForwardANull == ForwardNull("forwardA", "extractA")
ForwardB == Forward("forwardB", "extractB")
ForwardBNull == ForwardNull("forwardB", "extractB")

\* run_one, line 122
ExtractA ==
  /\ pc = "extractA"
  /\ LET made == paragon_call0(api, h, "ExtractOutput")
     IN  /\ calls' = calls \o made
         /\ shapeLog' = Logged(made)
         /\ \E r \in (IF made = << >> THEN {NULL} ELSE OutReplies) : outA' = r
  /\ pc' = "toggle"
  /\ UNCHANGED << frame, strategy >>
  /\ UNCHANGED << lib, api, closed, txt, ret, idx, newr, h, adapter, outB,
                  report, processed, rejected, exit >>

\* run_one, line 126
Toggle ==
  /\ pc = "toggle"
  /\ LET made == paragon_call0(api, h, "ToggleGPU")
     IN  /\ calls' = calls \o made
         /\ shapeLog' = Logged(made)
         /\ \E r \in (IF made = << >> THEN {NULL} ELSE AccelReplies) :
              rejected' = (rejected \/ (made # << >> /\ r \in Rejections))
  /\ pc' = "forwardB"
  /\ UNCHANGED << frame, strategy >>
  /\ UNCHANGED << lib, api, closed, txt, ret, idx, newr, h, adapter, outA,
                  outB, report, processed, exit >>

\* run_one, line 132
ExtractB ==
  /\ pc = "extractB"
  /\ LET made == paragon_call0(api, h, "ExtractOutput")
     IN  /\ calls' = calls \o made
         /\ shapeLog' = Logged(made)
         /\ \E r \in (IF made = << >> THEN {NULL} ELSE OutReplies) : outB' = r
  /\ pc' = "compare"
  /\ UNCHANGED << frame, strategy >>
  /\ UNCHANGED << lib, api, closed, txt, ret, idx, newr, h, adapter, outA,
                  report, processed, rejected, exit >>

\* run_one, lines 135-164: compare the two outputs and print the report
CompareReport ==
  /\ pc = "compare"
  /\ report' = Report(Shapes[idx], adapter, outA, outB)
  /\ pc' = "out"
  /\ UNCHANGED << frame, strategy >>
  /\ UNCHANGED << lib, api, closed, txt, ret, idx, newr, h, adapter, outA,
                  outB, calls, processed, shapeLog, rejected, exit >>

\* run_one, lines 166-168, and main, lines 187-196: return, and run the
\* next shape if there is one
Out ==
  /\ pc = "out"
  /\ processed' = Append(processed, Shapes[idx].id)
  /\ newr' = NULL
  /\ h' = 0
  /\ adapter' = NULL
  /\ outA' = NULL
  /\ outB' = NULL
  /\ calls' = << >>
  /\ report' = NoReport
  /\ rejected' = FALSE
  /\ IF idx < Len(Shapes)
     THEN idx' = idx + 1 /\ pc' = "run_one"
     ELSE idx' = idx /\ pc' = "unload"
  /\ UNCHANGED << frame, strategy >>
  /\ UNCHANGED << lib, api, closed, txt, ret, shapeLog, exit >>

\* main, lines 198-199
MainUnload ==
  /\ pc = "unload"
  /\ api' = paragon_unload(api)
  /\ closed' = IF UnloadCloses(api) THEN closed + 1 ELSE closed
  /\ exit' = 0
  /\ pc' = "exited"
  /\ UNCHANGED << frame, strategy >>
  /\ UNCHANGED << lib, txt, ret, idx, newr, h, adapter, outA, outB, calls,
                  report, processed, shapeLog, rejected >>

Next ==
  \/ MainLoad
  \/ Construct
  \/ GpuInit
  \/ EnableGuard
  \/ Enable
  \/ ForwardA
  \/ ForwardANull
  \/ ExtractA
  \/ Toggle
  \/ ForwardB
  \/ ForwardBNull
  \/ ExtractB
  \/ CompareReport
  \/ Out
  \/ MainUnload

Spec == Init /\ [][Next]_vars

----------------------------------------------------------------------------
(* Claims about the benchmark run (Spec) *)

ShapeIds == [i \in DOMAIN Shapes |-> Shapes[i].id]

\* the control points of run_one after the construction
CasePcs ==
  { "gpu_init", "try_gpu_enable", "enable1", "enable2", "enable3", "enable4",
    "enable5", "enable6", "forwardA", "extractA", "toggle", "forwardB",
    "extractB", "compare", "out", "crashed" }

\* C1: whatever the capability table and the replies, no call is made
\* through an unbound binding: every step that needs an unbound capability
\* is skipped, the two Forward calls included.
C1_NoCallThroughUnbound ==
  \A i \in DOMAIN calls : calls[i].ptr # NoFn

\* C2: main runs the ten shapes S1 .. XL2 in that order, each once, then
\* unloads the library and ends with exit status 0; no case ends the run
\* early.
C2_TenShapesThenExitZero ==
  /\ processed = SubSeq(ShapeIds, 1, Len(processed))
  /\ pc \in {"exited", "crashed"} =>
       /\ pc = "exited"
       /\ exit = 0
       /\ processed = ShapeIds
       /\ api.so = NoSo

\* C3, as stated: with no loadable library every case reaches the report,
\* with empty outputs and both differences zero, and the run ends with
\* exit status 0.
C3_LoadFailureReportsEveryCase ==
  ~lib.ok =>
    /\ pc # "crashed"
    /\ pc = "out" =>
         /\ report.printed
         /\ report.outA = << >>
         /\ report.outB = << >>
         /\ report.mae = RatZero
         /\ report.mx = RatZero
    /\ pc = "exited" => (exit = 0 /\ processed = ShapeIds)

\* C3, amended: with no loadable library the run never aborts and makes no
\* call; every case is abandoned at the construction, whose absent reply
\* decodes to -1, and prints no report (no outputs, no differences); the
\* ten cases are all run and the exit status is 0.
C3_LoadFailureAbandonsEveryCase ==
  ~lib.ok =>
    /\ pc \in {"main", "run_one", "out", "unload", "exited"}
    /\ calls = << >>
    /\ ~report.printed
    /\ pc = "out" => (newr = NULL /\ h = 0 - 1)
    /\ pc = "exited" => (exit = 0 /\ processed = ShapeIds)

C3_Witness ==
  /\ lib = NoLib
  /\ pc = "out"
  /\ idx = Len(Shapes)
  /\ Len(processed) = Len(Shapes) - 1
  /\ h = 0 - 1
  /\ ~report.printed

\* C4: a handle that is zero or negative is passed to no later call: after
\* a construction that yields one, no acceleration, Forward, ExtractOutput
\* or ToggleGPU call is made, nothing is reported, and run_one returns so
\* that main goes on with the next shape.
C4_FailedHandleState ==
  pc \in CasePcs =>
    /\ \A i \in 2..Len(calls) : calls[i].h > 0 /\ calls[i].h = h
    /\ h <= 0 => (pc = "out" /\ Len(calls) <= 1 /\ ~report.printed)

C4_FailedHandleStep ==
  (pc \in CasePcs /\ h <= 0) =>
    /\ processed' = Append(processed, Shapes[idx].id)
    /\ calls' = << >>
    /\ idx < Len(Shapes) => (idx' = idx + 1 /\ pc' = "run_one")
    /\ idx = Len(Shapes) => pc' = "unload"

C4_FailedHandleNeverUsed ==
  [] C4_FailedHandleState /\ [][C4_FailedHandleStep]_vars

\* the library replied "0" to the construction of a shape that is not the
\* last: the case is over after that one call
C4_Witness ==
  /\ pc = "out"
  /\ newr = TxtZero
  /\ h = 0
  /\ Len(calls) = 1
  /\ idx = 3

IsConstruction(c) ==
  c.fn \in {"New5", "New3"} \/ (c.fn = "Call" /\ c.method = "NewNetworkFloat32")

FiveArgs(dims) ==
  << json_layers(dims), json_activs(Len(dims)), json_trainable(Len(dims)),
     FALSE, FALSE >>

\* C5: paragon_new_net_any calls one entry point once, chosen by priority:
\* the 5-argument constructor when bound, else the 3-argument constructor
\* when bound, else generic dispatch with handle 0, the method
\* "NewNetworkFloat32" and the five values as one argument list; with none
\* bound it makes no call and its absent reply decodes to -1.
C5_OneConstructorByPriority ==
  pc \in CasePcs =>
    LET dims == Shapes[idx].dims
        made == {i \in DOMAIN calls : IsConstruction(calls[i])}
    IN  /\ made \subseteq {1}
        /\ api.New5 # NoFn =>
             /\ made = {1}
             /\ calls[1].fn = "New5" /\ calls[1].ptr = api.New5
             /\ calls[1].args = FiveArgs(dims)
        /\ (api.New5 = NoFn /\ api.New3 # NoFn) =>
             /\ made = {1}
             /\ calls[1].fn = "New3" /\ calls[1].ptr = api.New3
             /\ calls[1].args = SubSeq(FiveArgs(dims), 1, 3)
        /\ (api.New5 = NoFn /\ api.New3 = NoFn /\ api.Call # NoFn) =>
             /\ made = {1}
             /\ calls[1].fn = "Call" /\ calls[1].ptr = api.Call
             /\ calls[1].h = 0
             /\ calls[1].method = "NewNetworkFloat32"
             /\ calls[1].args = FiveArgs(dims)
        /\ (api.New5 = NoFn /\ api.New3 = NoFn /\ api.Call = NoFn) =>
             /\ calls = << >>
             /\ newr = NULL
             /\ h = 0 - 1

\* only generic dispatch is bound, and the construction went through it
C5_Witness ==
  /\ pc = "gpu_init"
  /\ api.New5 = NoFn /\ api.New3 = NoFn /\ api.Call = CALLN[3]
  /\ Len(calls) = 1
  /\ calls[1].fn = "Call" /\ calls[1].h = 0
  /\ calls[1].method = "NewNetworkFloat32"
  /\ Len(calls[1].args) = 5

\* the calls of a case that succeeds, in the order of run_one
CaseOrder == <<
  "construct", "InitializeOptimizedGPU",
  "SetWebGPUNative", "WebGPUNativeOn", "Configure", "SetOptions", "SetField",
  "Call",
  "Forward", "ExtractOutput",
  "ToggleGPU", "Forward", "ExtractOutput" >>

CallName(c) == IF IsConstruction(c) THEN "construct" ELSE c.method

\* the number of calls a successful case has made when it is at a control
\* point
CallsBefore(p) ==
  CASE p = "gpu_init" -> 1
    [] p \in {"try_gpu_enable", "enable1"} -> 2
    [] p = "enable2" -> 3
    [] p = "enable3" -> 4
    [] p = "enable4" -> 5
    [] p = "enable5" -> 6
    [] p = "enable6" -> 7
    [] p = "forwardA" -> 8
    [] p = "extractA" -> 9
    [] p = "toggle" -> 10
    [] p = "forwardB" -> 11
    [] p = "extractB" -> 12
    [] p \in {"compare", "out"} -> 13

\* C9: in a case whose construction yields a positive handle with generic
\* dispatch bound, the calls are made one after the other in the order
\* construction, InitializeOptimizedGPU, the enabling calls, Forward,
\* ExtractOutput, ToggleGPU, Forward, ExtractOutput, and the report comes
\* after the last of them; the calls of a shape all come before the calls
\* of the next shape.
C9_CallsInFixedOrder ==
  /\ (pc \in CasePcs /\ h > 0 /\ api.Call # NoFn) =>
       /\ pc # "crashed"
       /\ [i \in DOMAIN calls |-> CallName(calls[i])]
            = SubSeq(CaseOrder, 1, CallsBefore(pc))
       /\ report.printed => pc = "out"
  /\ \A i \in DOMAIN shapeLog : \A j \in DOMAIN shapeLog :
       i < j => shapeLog[i] < shapeLog[j]
  /\ calls # << >> => (shapeLog # << >> /\ shapeLog[Len(shapeLog)] = idx)

C9_Witness ==
  /\ pc = "out"
  /\ idx = 2
  /\ report.printed
  /\ Len(calls) = 13
  /\ shapeLog = << 1, 2 >>

EnablingMethods == {EnableCalls[k].method : k \in DOMAIN EnableCalls}

Count(method) == Cardinality({i \in DOMAIN calls : calls[i].method = method})

\* C10: the acceleration step is best effort: whatever the library replies
\* to InitializeOptimizedGPU, to an enabling call or to ToggleGPU, the
\* remaining enabling calls, both passes, the comparison and the report
\* still take place; and the enabling calls are attempted exactly when
\* generic dispatch is bound.
C10_AccelerationIsBestEffort ==
  /\ (pc = "out" /\ h > 0 /\ api.Call # NoFn) =>
       /\ \A m \in EnablingMethods : Count(m) = 1
       /\ Count("InitializeOptimizedGPU") = 1
       /\ Count("ToggleGPU") = 1
       /\ Count("Forward") = 2
       /\ Count("ExtractOutput") = 2
       /\ report.printed
       /\ report.mae = Compare(outA, outB).mae
  /\ (pc \in {"forwardA", "extractA", "toggle", "forwardB", "extractB",
              "compare", "out"} /\ h > 0) =>
       /\ api.Call # NoFn => \A m \in EnablingMethods : Count(m) = 1
       /\ api.Call = NoFn => \A m \in EnablingMethods : Count(m) = 0
  /\ (rejected /\ api.Call # NoFn) => pc # "crashed"

\* a case in which the library rejected an acceleration call, the
\* initialisation among them, and which was reported all the same
C10_Witness ==
  /\ pc = "out"
  /\ rejected
  /\ adapter = NULL
  /\ report.printed
  /\ Len(calls) = 13

----------------------------------------------------------------------------
(* Claims about the resolver (SpecLoad) *)

\* the aliases of a category that a library exports, as positions in its
\* alias list
Exported(names) == {i \in DOMAIN names : names[i] \in lib.exports}

BoundAsEarliest(f, names) ==
  /\ (f # NoFn) <=> (Exported(names) # {})
  /\ f # NoFn => /\ f = names[Min(Exported(names))]
                 /\ \A i \in Exported(names) : \A j \in DOMAIN names :
                      names[j] = f => j <= i

\* C6: after paragon_load on a loadable library exporting the set E, each
\* category is bound iff E holds one of its three aliases, and it is bound
\* to the earliest alias of its list that E holds; the categories resolve
\* independently of each other.
C6_EarliestAliasPerCategory ==
  (pc = "loaded" /\ lib.ok) =>
    /\ api.so # NoSo
    /\ BoundAsEarliest(api.New5, NEW5)
    /\ BoundAsEarliest(api.New3, NEW3)
    /\ BoundAsEarliest(api.Call, CALLN)

\* a library exporting two 3-argument aliases and nothing else: New3 is
\* bound to the earlier one, New5 and Call are unbound
C6_Witness ==
  /\ pc = "loaded"
  /\ lib = Lib({NEW3[2], NEW3[3]})
  /\ api.New5 = NoFn
  /\ api.New3 = NEW3[2]
  /\ api.Call = NoFn

\* C7: when the library fails to load, paragon_load returns 1 with the
\* library handle absent and New5, New3 and Call unbound, whatever the
\* table held before.
C7_LoadFailureAllUnbound ==
  (pc = "loaded" /\ ~lib.ok) =>
    /\ ret = 1
    /\ api.so = NoSo
    /\ api.New5 = NoFn
    /\ api.New3 = NoFn
    /\ api.Call = NoFn

C7_Witness ==
  /\ pc = "loaded"
  /\ lib = NoLib
  /\ ret = 1
  /\ api = ZeroAPI

----------------------------------------------------------------------------
(* Claims about the handle decoder (SpecParse) *)

\* s is optional white space, an optional sign and one or more digits, and
\* nothing else
BareInteger(s) ==
  /\ s # NULL
  /\ \E i \in 1..Len(s) :
       /\ \A j \in i..Len(s) : s[j] \in Digit
       /\ \/ \A j \in 1..(i - 1) : s[j] \in Space
          \/ /\ s[i - 1] \in {"+", "-"}
             /\ \A j \in 1..(i - 2) : s[j] \in Space

RECURSIVE Pow10(_)
Pow10(n) == IF n = 0 THEN 1 ELSE 10 * Pow10(n - 1)

RECURSIVE SumDigits(_, _)
SumDigits(s, i) ==
  IF i > Len(s) THEN 0
  ELSE (IF s[i] \in Digit THEN DigitVal(s[i]) * Pow10(Len(s) - i) ELSE 0)
       + SumDigits(s, i + 1)

BareValue(s) ==
  IF \E i \in 1..Len(s) : s[i] = "-" THEN 0 - SumDigits(s, 1)
  ELSE SumDigits(s, 1)

\* an integer literal starts at position d, after optional white space
IntegerAt(s, d) ==
  \E j \in d..Len(s) :
    /\ \A k \in d..(j - 1) : s[k] \in Space
    /\ \/ s[j] \in Digit
       \/ s[j] \in {"+", "-"} /\ At(s, j + 1) \in Digit

\* s holds a recognized key that is followed by a colon and an integer
KeyThenInteger(s) ==
  /\ s # NULL
  /\ \E n \in DOMAIN keys : \E i \in 1..Len(s) :
       /\ OccursAt(s, keys[n], i)
       /\ \E c \in i..Len(s) :
            /\ s[c] = ":"
            /\ IntegerAt(s, SkipWhile(s, c, AfterColon))

\* C8: paragon_parse_handle returns the integer of a text that is wholly a
\* bare integer, the integer after a recognized key for the examples of
\* the specification, and -1 for every other text: the absent text, the
\* empty text, and every text that is neither a bare integer nor holds a
\* recognized key followed by a colon and an integer.
C8_DecodesOrSentinel ==
  pc = "parsed_handle" =>
    /\ BareInteger(txt) => ret = BareValue(txt)
    /\ txt = Txt42 => ret = 42
    /\ txt = TxtHandle7 => ret = 7
    /\ txt = TxtResultId9 => ret = 9
    /\ txt = TxtNotJson => ret = 0 - 1
    /\ txt = NULL => ret = 0 - 1
    /\ txt = << >> => ret = 0 - 1
    /\ (~BareInteger(txt) /\ ~KeyThenInteger(txt)) => ret = 0 - 1

\* C8 with the empty text left out: what the decoder does satisfy
C8_ExceptEmptyText ==
  pc = "parsed_handle" =>
    /\ BareInteger(txt) => ret = BareValue(txt)
    /\ txt = Txt42 => ret = 42
    /\ txt = TxtHandle7 => ret = 7
    /\ txt = TxtResultId9 => ret = 9
    /\ txt = TxtNotJson => ret = 0 - 1
    /\ txt = NULL => ret = 0 - 1
    /\ (txt # << >> /\ ~BareInteger(txt) /\ ~KeyThenInteger(txt)) => ret = 0 - 1

----------------------------------------------------------------------------
(* The vector decoder on its own: parse_vector_tolerant(txt, out, maxn),   *)
(* src/c/bench.c lines 66-78, one turn of its loop at a time.  frame holds *)
(* its locals: p and q the positions of the brackets (0: a null pointer),  *)
(* s the scan position, n the count, out the cells of the caller's buffer  *)
(* that were written (index from 0), and lit the positions at which the    *)
(* literals taken so far start; ret is what it returned.                   *)

MaxVecFrags == 3

VecFrags ==
  { << "[" >>, << "]" >>, << "," >>, << "1", ".", "5" >>,
    << "-", "2" >>, << "b", "a", "d" >>, << " " >> }

RECURSIVE VecTextsUpTo(_)
VecTextsUpTo(k) ==
  IF k = 0 THEN { << >> }
  ELSE LET T == VecTextsUpTo(k - 1)
       IN  T \cup {t \o f : t \in T, f \in VecFrags}

TxtVecSpaced == << "[", " ", "7", " ", ",", " ", ".", "5", "e", ",", "+", "]" >>
TxtVecExp == << "[", "-", "2", "e", "1", ",", "3", "E", "+", "2", "]" >>
TxtVecNested == << "x", "[", "[", "1", "]", ",", "[", "2", "]", "]", "y" >>

VecTexts ==
  VecTextsUpTo(MaxVecFrags)
    \cup {NULL, TxtVecBad, TxtVec123, TxtVecSpaced, TxtVecExp, TxtVecNested}

\* the maximum counts a caller passes
VecMaxima == {0, 1, 2, 10}

VecFrame(maxn) ==
  [fn |-> "parse_vector_tolerant", maxn |-> maxn,
   p |-> 0, q |-> 0, s |-> 0, n |-> 0, out |-> << >>, lit |-> << >>]

\* ret before parse_vector_tolerant has returned
NoCount == 0 - 1

\* out[i] = v
Store(out, i, v) ==
  [j \in (DOMAIN out) \cup {i} |-> IF j = i THEN v ELSE out[j]]

\* a test that forgets the "!p" of line 70
MutBracketsNoOpenTest(p, q) == q = 0 \/ q <= p

\* the test "!p || !q || q<=p" of line 70
BracketsMissing(p, q) == p = 0 \/ q = 0 \/ q <= p

\* a skip that does not move
MutSkipStays(pos) == pos

\* a skip of two characters
MutSkipTwo(pos) == pos + 2

\* the "++s" of line 74
SkipTo(pos) == pos + 1

InitVec ==
  /\ txt \in VecTexts
  /\ \E m \in VecMaxima : frame = VecFrame(m)
  /\ ret = NoCount
  /\ pc = "vec_enter"
  /\ lib = NoLib
  /\ api = ZeroAPI
  /\ closed = 0
  /\ BenchIdle

\* lines 67-71: the tests on txt and on the two brackets
VecEnter ==
  /\ pc = "vec_enter"
  /\ IF txt = NULL
     THEN /\ ret' = 0
          /\ pc' = "vec_done"
          /\ frame' = frame
     ELSE LET p == strchr(txt, 1, "[")
              q == strrchr(txt, "]")
          IN  IF BracketsMissing(p, q)
              THEN /\ ret' = 0
                   /\ pc' = "vec_done"
                   /\ frame' = [frame EXCEPT !.p = p, !.q = q]
              ELSE /\ ret' = ret
                   /\ pc' = "vec_loop"
                   /\ frame' = [frame EXCEPT !.p = p, !.q = q, !.s = p + 1]
  /\ UNCHANGED << lib, api, closed, txt >>
  /\ UNCHANGED benchVars

\* line 72 holds, lines 73-74: no literal starts at s
VecSkip ==
  /\ pc = "vec_loop"
  /\ frame.s < frame.q /\ frame.n < frame.maxn
  /\ strtod(txt, frame.s).e = frame.s
  /\ frame' = [frame EXCEPT !.s = SkipTo(frame.s)]
  /\ UNCHANGED << lib, api, closed, txt, ret, pc >>
  /\ UNCHANGED benchVars

\* line 72 holds, lines 73 and 75: a literal starts at s
VecTake ==
  /\ pc = "vec_loop"
  /\ frame.s < frame.q /\ frame.n < frame.maxn
  /\ strtod(txt, frame.s).e # frame.s
  /\ frame' = [frame EXCEPT !.out = Store(frame.out, frame.n,
                                          strtod(txt, frame.s).v),
                            !.n = frame.n + 1,
                            !.lit = Append(frame.lit, frame.s),
                            !.s = strtod(txt, frame.s).e]
  /\ UNCHANGED << lib, api, closed, txt, ret, pc >>
  /\ UNCHANGED benchVars

\* line 72 fails, line 77
VecReturn ==
  /\ pc = "vec_loop"
  /\ ~(frame.s < frame.q /\ frame.n < frame.maxn)
  /\ ret' = frame.n
  /\ pc' = "vec_done"
  /\ UNCHANGED << frame, lib, api, closed, txt >>
  /\ UNCHANGED benchVars

NextVec == VecEnter \/ VecSkip \/ VecTake \/ VecReturn

SpecVec == InitVec /\ [][NextVec]_vars

\* the loop is run by one thread that is never suspended for ever
SpecVecFair == SpecVec /\ WF_vars(NextVec)

----------------------------------------------------------------------------
(* Claims on the vector decoder: specification SpecVec *)

VecOne == Rat(1, 1)
VecTwoAndHalf == Rat(5, 2)
VecThree == Rat(3, 1)

\* position x lies inside the k-th literal taken
InLiteral(x, k) ==
  frame.lit[k] <= x /\ x < strtod(txt, frame.lit[k]).e

\* C11: the values written are, in text order, the literals that start
\* between the first '[' and the last ']': each value is the literal read
\* at a position after the end of the one before, every scanned position
\* outside the literals is one where no literal starts (it was skipped,
\* one character at a time), the scan stops only at the last ']' or at the
\* maximum count, and "[1.0,2.5,bad,3]" with maximum 10 yields 1.0, 2.5, 3.0.
C11_LiteralsInTextOrder ==
  pc \in {"vec_loop", "vec_done"} /\ frame.s > 0 =>
    /\ Len(frame.lit) = frame.n
    /\ \A k \in 1..frame.n :
         /\ frame.p < frame.lit[k] /\ frame.lit[k] < frame.q
         /\ strtod(txt, frame.lit[k]).e > frame.lit[k]
         /\ frame.out[k - 1] = strtod(txt, frame.lit[k]).v
         /\ k > 1 => frame.lit[k] >= strtod(txt, frame.lit[k - 1]).e
    /\ \A x \in (frame.p + 1)..(frame.s - 1) :
         (\E k \in 1..frame.n : InLiteral(x, k)) \/ strtod(txt, x).e = x
    /\ pc = "vec_done" =>
         /\ ret = frame.n
         /\ frame.s >= frame.q \/ frame.n = frame.maxn
         /\ (txt = TxtVecBad /\ frame.maxn = 10) =>
              /\ ret = 3
              /\ frame.out[0] = VecOne
              /\ frame.out[1] = VecTwoAndHalf
              /\ frame.out[2] = VecThree

C11_Witness ==
  /\ pc = "vec_done"
  /\ txt = TxtVecBad
  /\ frame.maxn = 10
  /\ ret = 3
  /\ frame.lit = << 2, 6, 14 >>

NoChar(t, c) == \A i \in DOMAIN t : t[i] # c

\* C12: the result is empty (count 0, no cell of the buffer written) when
\* the text is absent, holds no '[', holds no ']', or its last ']' comes
\* before its first '['.
C12_EmptyWithoutBrackets ==
  (/\ pc = "vec_done"
   /\ \/ txt = NULL
      \/ NoChar(txt, "[")
      \/ NoChar(txt, "]")
      \/ \A i \in DOMAIN txt : \A j \in DOMAIN txt :
           (txt[i] = "]" /\ txt[j] = "[") => i < j)
  => (ret = 0 /\ frame.n = 0 /\ frame.out = << >>)

C12_Witness ==
  /\ pc = "vec_done"
  /\ txt = << "]", "1", ".", "5", "[" >>
  /\ frame.maxn = 10
  /\ ret = 0
  /\ frame.out = << >>

\* C19, the state part: the count never exceeds the maximum, the cells
\* written are exactly 0 .. n-1, and the count returned is that n
C19_State ==
  frame.fn = "parse_vector_tolerant" =>
    /\ 0 <= frame.n /\ frame.n <= frame.maxn
    /\ DOMAIN frame.out = 0..(frame.n - 1)
    /\ pc = "vec_done" => (ret = frame.n /\ 0 <= ret /\ ret <= frame.maxn)

\* C19, the step part: every turn of the loop moves the position forward
C19_Advance ==
  (pc = "vec_loop" /\ pc' = "vec_loop") => frame'.s > frame.s

\* C19: for every text and every maximum count >= 0 the scan terminates,
\* its position strictly advancing on every turn, and returns a count n
\* with 0 <= n <= maxn, having written only the cells 0 .. n-1.
C19_ScanTerminatesWithinBound ==
  /\ [] C19_State
  /\ [][C19_Advance]_vars
  /\ <>(pc = "vec_done")

\* the scan was cut by the maximum count before the last ']'
C19_Witness ==
  /\ pc = "vec_done"
  /\ frame.maxn = 2
  /\ ret = 2
  /\ frame.s < frame.q
  /\ DOMAIN frame.out = {0, 1}

----------------------------------------------------------------------------
(* Claims on the comparison: specification Spec *)

RECURSIVE FrontSum(_)
FrontSum(D) == IF D = << >> THEN RatZero ELSE RatAdd(D[1], FrontSum(Tail(D)))

RatTimesInt(x, k) == Rat(x.n * k, x.d)

\* C13: the report compares the first n = min(length, length) elements of
\* the two decoded outputs: the mean difference times n is the sum of the
\* |a[i] - b[i]|, the max difference is the largest of them, both are zero
\* when n = 0, and [1,2,3] against [1,2,5] gives 2/3 and 2.
C13_MetricsOverOverlap ==
  report.printed =>
    LET a == parse_vector_tolerant(report.outA, VecCap)
        b == parse_vector_tolerant(report.outB, VecCap)
        n == Min({Len(a), Len(b)})
        D == [i \in 1..n |-> RatAbsDiff(a[i], b[i])]
    IN  /\ n = 0 => (report.mae = RatZero /\ report.mx = RatZero)
        /\ n > 0 =>
             /\ RatTimesInt(report.mae, n) = FrontSum(D)
             /\ \E i \in 1..n : report.mx = D[i]
             /\ \A i \in 1..n : ~RatLess(report.mx, D[i])
        /\ (report.outA = TxtVec123 /\ report.outB = TxtVec125) =>
             (report.mae = Rat(2, 3) /\ report.mx = Rat(2, 1))

\* a report on outputs of different lengths that differ in the overlap
C13_Witness ==
  /\ report.printed
  /\ report.outA = TxtVec14
  /\ report.outB = TxtVec125
  /\ report.mae = Rat(1, 1)
  /\ report.mx = Rat(2, 1)

----------------------------------------------------------------------------
(* The input generator on its own: json_fixed784(), src/c/bench.c lines    *)
(* 52-64, one turn of its loop at a time, called GenCalls times as         *)
(* run_one calls it once in every case.  frame holds its locals i and s,   *)
(* b the elements appended so far (each kept as the state s it is printed  *)
(* from), and xin the vectors its caller has received.                     *)

GenCalls == 2

\* "unsigned s = 123u", line 56
GenSeed == [hi |-> 0, lo |-> 123]

GenIdle == [fn |-> "json_fixed784", i |-> 0, s |-> GenSeed, b |-> << >>,
            xin |-> << >>]

InitGen ==
  /\ frame = GenIdle
  /\ pc = "gen_enter"
  /\ txt = NULL
  /\ ret = NoRet
  /\ lib = NoLib
  /\ api = ZeroAPI
  /\ closed = 0
  /\ BenchIdle

\* lines 54-57: a call of json_fixed784, from run_one line 96
GenEnter ==
  /\ pc \in {"gen_enter", "gen_done"}
  /\ Len(frame.xin) < GenCalls
  /\ frame' = [frame EXCEPT !.i = 0, !.s = GenSeed, !.b = << >>]
  /\ pc' = "gen_loop"
  /\ UNCHANGED << lib, api, closed, txt, ret >>
  /\ UNCHANGED benchVars

\* lines 57-61: one turn of the loop
GenStep ==
  /\ pc = "gen_loop"
  /\ frame.i < InputLen
  /\ frame' = [frame EXCEPT !.s = LcgNext(frame.s),
                            !.b = Append(frame.b, LcgNext(frame.s)),
                            !.i = frame.i + 1]
  /\ UNCHANGED << lib, api, closed, txt, ret, pc >>
  /\ UNCHANGED benchVars

\* lines 62-63: the loop is over, the text is returned
GenReturn ==
  /\ pc = "gen_loop"
  /\ ~(frame.i < InputLen)
  /\ frame' = [frame EXCEPT !.xin = Append(frame.xin, frame.b)]
  /\ pc' = "gen_done"
  /\ UNCHANGED << lib, api, closed, txt, ret >>
  /\ UNCHANGED benchVars

NextGen == GenEnter \/ GenStep \/ GenReturn

SpecGen == InitGen /\ [][NextGen]_vars

----------------------------------------------------------------------------
(* Claims on the input generator: specification SpecGen *)

Multiplier == 1664525
Increment == 1013904223

\* a 32-bit value in three limbs of 11, 11 and 10 bits
Limbs(x) ==
  << x.lo % 2048, (x.lo \div 2048) + (x.hi % 64) * 32, x.hi \div 64 >>

IntLimbs(k) == << k % 2048, (k \div 2048) % 2048, k \div 4194304 >>

\* (x * Multiplier + Increment) mod 2^32, limb by limb
RecurrenceLimbs(x) ==
  LET m  == IntLimbs(Multiplier)
      c  == IntLimbs(Increment)
      t0 == x[1] * m[1] + c[1]
      t1 == x[2] * m[1] + x[1] * m[2] + c[2] + (t0 \div 2048)
      t2 == x[3] * m[1] + x[2] * m[2] + x[1] * m[3] + c[3] + (t1 \div 2048)
  IN  << t0 % 2048, t1 % 2048, t2 % 1024 >>

\* C14: the generator yields exactly 784 elements, the i-th from the state
\* s_i = (s_(i-1) * 1664525 + 1013904223) mod 2^32 with s_0 = 123, element
\* 0 from (123 * 1664525 + 1013904223) mod 2^32; every call returns the
\* same vector.
C14_SeededRecurrence ==
  frame.fn = "json_fixed784" =>
    /\ Len(frame.b) = frame.i
    /\ frame.i <= InputLen
    /\ \A k \in 1..Len(frame.b) :
         Limbs(frame.b[k]) =
           RecurrenceLimbs(Limbs(IF k = 1 THEN [hi |-> 0, lo |-> 123]
                                 ELSE frame.b[k - 1]))
    /\ frame.b # << >> =>
         frame.b[1].hi * 65536 + frame.b[1].lo = 123 * Multiplier + Increment
    /\ \A j \in DOMAIN frame.xin :
         /\ Len(frame.xin[j]) = 784
         /\ frame.xin[j] = frame.xin[1]
    /\ pc = "gen_done" => frame.xin[Len(frame.xin)] = frame.b

\* the second call has returned its 784 elements
C14_Witness ==
  /\ pc = "gen_done"
  /\ Len(frame.xin) = 2
  /\ Len(frame.xin[2]) = 784
  /\ frame.i = 784

----------------------------------------------------------------------------
(* Claims on the facade over the cases of a run: specification Spec *)

\* the branch the capability table a selects
BranchOf(a) ==
  IF a.New5 # NoFn THEN "New5"
  ELSE IF a.New3 # NoFn THEN "New3"
  ELSE IF a.Call # NoFn THEN "Call"
  ELSE "none"

\* C15: with the capability table unchanged, paragon_new_net_any takes the
\* same branch in every case of the run, the one the table selects,
\* whatever the earlier cases were and whatever the library replied in them.
C15_SameBranchEveryCase ==
  /\ \A i \in DOMAIN strategy : strategy[i] = strategy[1]
  /\ pc \in CasePcs =>
       /\ Len(strategy) = idx
       /\ strategy[idx] = BranchOf(api)

\* the tenth construction of a run took the branch of the first nine
C15_Witness ==
  /\ pc = "out"
  /\ idx = 10
  /\ strategy = [i \in 1..10 |-> "New3"]
  /\ report.printed

----------------------------------------------------------------------------
(* Claims on the capability table during a run: specification Spec *)

\* C16, the state part: while the cases run the table is the one that
\* paragon_load resolved from the library
C16_State ==
  pc \in CasePcs \cup {"run_one", "unload"} => api = paragon_load(ZeroAPI, lib)

\* C16, the step part: a step that is neither paragon_load nor
\* paragon_unload leaves the library handle and the three bindings as
\* they are
C16_Step ==
  pc \notin {"main", "unload"} => api' = api

\* C16: from the return of paragon_load until paragon_unload no step of the
\* run changes the library handle or any of the three bindings, in any
\* case and for any reply.
C16_TableUnchangedWhileLoaded ==
  [] C16_State /\ [][C16_Step]_vars

\* a whole run went by, ten reports printed with rejected calls among
\* them, and every binding is still the one resolved at load
C16_Witness ==
  /\ pc = "unload"
  /\ Len(processed) = 10
  /\ api = paragon_load(ZeroAPI, lib)
  /\ api.so # NoSo
  /\ api.New5 # NoFn /\ api.New3 # NoFn /\ api.Call # NoFn

----------------------------------------------------------------------------
(* The request builders on their own: json_layers, json_activs and         *)
(* json_trainable, src/c/bench.c lines 28-51, called in the order of       *)
(* run_one lines 93-95 on a shape descriptor.  frame holds the descriptor  *)
(* and the three arrays built.                                             *)

MaxDims == 4

Widths == {784, 64, 10}

RECURSIVE DimsUpTo(_)
DimsUpTo(k) ==
  IF k = 0 THEN { << >> }
  ELSE LET T == DimsUpTo(k - 1)
       IN  T \cup {Append(t, w) : t \in T, w \in Widths}

NotBuilt == << "not built" >>

InitBuild ==
  /\ \E d \in DimsUpTo(MaxDims) \cup {Shapes[i].dims : i \in DOMAIN Shapes} :
       frame = [fn |-> "builders", dims |-> d, layers |-> NotBuilt,
                activs |-> NotBuilt, fully |-> NotBuilt]
  /\ pc = "json_layers"
  /\ txt = NULL
  /\ ret = NoRet
  /\ lib = NoLib
  /\ api = ZeroAPI
  /\ closed = 0
  /\ BenchIdle

\* run_one, line 93
BuildLayers ==
  /\ pc = "json_layers"
  /\ frame' = [frame EXCEPT !.layers = json_layers(frame.dims)]
  /\ pc' = "json_activs"
  /\ UNCHANGED << lib, api, closed, txt, ret >>
  /\ UNCHANGED benchVars

\* run_one, line 94
BuildActivs ==
  /\ pc = "json_activs"
  /\ frame' = [frame EXCEPT !.activs = json_activs(Len(frame.dims))]
  /\ pc' = "json_trainable"
  /\ UNCHANGED << lib, api, closed, txt, ret >>
  /\ UNCHANGED benchVars

\* run_one, line 95
BuildTrainable ==
  /\ pc = "json_trainable"
  /\ frame' = [frame EXCEPT !.fully = json_trainable(Len(frame.dims))]
  /\ pc' = "built"
  /\ UNCHANGED << lib, api, closed, txt, ret >>
  /\ UNCHANGED benchVars

NextBuild == BuildLayers \/ BuildActivs \/ BuildTrainable

SpecBuild == InitBuild /\ [][NextBuild]_vars

----------------------------------------------------------------------------
(* Claims on the request builders: specification SpecBuild *)

\* C17: for a descriptor of n >= 2 layers each of the three arrays has n
\* entries: the layers are {Width: w, Height: 1} for each width in order,
\* the activations "linear", then "relu" for each of the n-2 interior
\* layers, then "softmax", and the trainability flags are all true.
C17_ArraysMatchDescriptor ==
  (pc = "built" /\ Len(frame.dims) >= 2) =>
    LET n == Len(frame.dims)
    IN  /\ Len(frame.layers) = n
        /\ Len(frame.activs) = n
        /\ Len(frame.fully) = n
        /\ \A i \in 1..n :
             /\ DOMAIN frame.layers[i] = {"Width", "Height"}
             /\ frame.layers[i].Width = frame.dims[i]
             /\ frame.layers[i].Height = 1
             /\ frame.fully[i] = TRUE
             /\ i = 1 => frame.activs[i] = "linear"
             /\ (1 < i /\ i < n) => frame.activs[i] = "relu"
             /\ i = n => frame.activs[i] = "softmax"

\* a descriptor of two layers, which has no interior layer
C17_Witness ==
  /\ pc = "built"
  /\ frame.dims = << 784, 10 >>
  /\ frame.layers = << [Width |-> 784, Height |-> 1],
                       [Width |-> 10, Height |-> 1] >>
  /\ frame.activs = << "linear", "softmax" >>
  /\ frame.fully = << TRUE, TRUE >>

----------------------------------------------------------------------------
(* Claims on texts with several keys: specification SpecParse *)

\* the positions of s at which a recognized key starts
KeyPositions(s) ==
  {i \in 1..Len(s) : \E n \in DOMAIN keys : OccursAt(s, keys[n], i)}

\* the key that starts at position i is followed by a colon and an integer
FollowedByInteger(s, i) ==
  \E c \in i..Len(s) :
    /\ s[c] = ":"
    /\ \A b \in i..(c - 1) : s[b] # ":"
    /\ IntegerAt(s, SkipWhile(s, c, AfterColon))

\* the integer that follows the key at position i
IntegerAfter(s, i) ==
  strtoll(s, SkipWhile(s, strchr(s, i, ":"), AfterColon)).v

\* s is not a bare integer and holds several recognized keys, each
\* followed by a colon and an integer
SeveralKeys(s) ==
  /\ s # NULL
  /\ ~BareInteger(s)
  /\ Cardinality(KeyPositions(s)) >= 2
  /\ \A i \in KeyPositions(s) : FollowedByInteger(s, i)

\* C18, as stated: of several recognized keys the one that occurs earliest
\* in the text gives the integer returned.
C18_EarliestKeyInText ==
  (pc = "parsed_handle" /\ SeveralKeys(txt)) =>
    ret = IntegerAfter(txt, Min(KeyPositions(txt)))

\* the first occurrence in s of the key that is earliest in the list of
\* keys among those that occur in s
FirstListedKey(s) ==
  LET n == Min({m \in DOMAIN keys : strstr(s, 1, keys[m]) # 0})
  IN  Min({i \in 1..Len(s) : OccursAt(s, keys[n], i)})

\* C18, amended: of several recognized keys the one that is earliest in
\* the decoder's list of keys ("handle", "Handle", "id", "ID",
\* "network_handle", "NetworkHandle", "h", "H") gives the integer returned,
\* wherever it occurs in the text.
C18_EarliestKeyInList ==
  (pc = "parsed_handle" /\ SeveralKeys(txt)) =>
    ret = IntegerAfter(txt, FirstListedKey(txt))

\* "id" comes before "handle" in the text, and the integer of "handle" is
\* returned
C18_Witness ==
  /\ pc = "parsed_handle"
  /\ txt = TxtIdThenHandle
  /\ SeveralKeys(txt)
  /\ ret = 7

----------------------------------------------------------------------------
(* Claims on the release of the library: specification SpecLoad *)

\* C20: after paragon_unload the library handle is absent and the three
\* bindings are unbound; paragon_call0 and paragon_new_net_any then make no
\* call and return an absent reply; the library is closed at most once,
\* however many times paragon_unload runs, and never when its load failed.
C20_ReleasedTableIsInert ==
  /\ closed <= 1
  /\ ~lib.ok => closed = 0
  /\ pc \in {"unloaded", "used_unloaded"} =>
       /\ api.so = NoSo
       /\ api.New5 = NoFn /\ api.New3 = NoFn /\ api.Call = NoFn
       /\ closed = (IF lib.ok THEN 1 ELSE 0)
  /\ pc = "used_unloaded" => (calls = << >> /\ newr = NULL)

\* a library with every entry point was loaded and released, and the
\* table was then used
C20_Witness ==
  /\ pc = "used_unloaded"
  /\ lib = Lib({NEW5[1], NEW3[1], CALLN[1]})
  /\ closed = 1
  /\ calls = << >>
  /\ newr = NULL

====
